---- MODULE Spec2Model ----
(***************************************************************************)
(* A model of punynode (src/src/punynode.ts): the Bootstring codec         *)
(* (encode, decode), the domain mapper (mapDomain) and the facade          *)
(* (toASCII, toUnicode).                                                   *)
(*                                                                         *)
(* A JavaScript string is modelled as the sequence of its UTF-16 code      *)
(* units (numbers in 0..65535); an array of code points as a sequence of   *)
(* numbers.  Loop counters keep the 0-based values of the source; a        *)
(* sequence is read at counter + 1.                                        *)
(***************************************************************************)
EXTENDS Integers, Sequences, FiniteSets

VARIABLES call, input, enc, dec, dom

vars == <<call, input, enc, dec, dom>>

(***************************************************************************)
(* Constants (punynode.ts lines 4-19)                                      *)
(***************************************************************************)
maxInt == 2147483647
base == 36
tMin == 1
tMax == 26
skew == 38
damp == 700
initialBias == 72
initialN == 128
delimiter == 45

\* Code units used by the regular expressions and the string API.
DOT == 46
AT == 64
MaxCodePoint == 1114111

(***************************************************************************)
(* Bounds of the model                                                     *)
(***************************************************************************)
MaxEncLen == 4
MaxDecLen == 6
MaxLabels == 2

(***************************************************************************)
(* Helpers for sequences                                                   *)
(***************************************************************************)
\* A position of a sequence that holds no code unit is marked -1 and dropped.
Keep(x) == x >= 0

SeqsUpTo(A, len) == UNION {[1..k -> A] : k \in 0..len}

Range(s) == {s[j] : j \in 1..Len(s)}

SetMax(S) == CHOOSE x \in S : \A y \in S : y <= x

SetMin(S) == CHOOSE x \in S : \A y \in S : x <= y

IsSurrogateHigh(u) == u >= 55296 /\ u <= 56319

IsSurrogateLow(u) == u >= 56320 /\ u <= 57343

\* A string whose every surrogate is half of a pair: a string of scalar values.
WellFormed(s) ==
    \A j \in 1..Len(s) :
        /\ IsSurrogateHigh(s[j]) => (j < Len(s) /\ IsSurrogateLow(s[j + 1]))
        /\ IsSurrogateLow(s[j]) => (j > 1 /\ IsSurrogateHigh(s[j - 1]))

\* Array.from(str).map(char => char.codePointAt(0)): a high surrogate followed
\* by a low one is one code point, every other code unit is its own.
ucs2decode(str) ==
    LET tail(j) == j > 1 /\ IsSurrogateLow(str[j]) /\ IsSurrogateHigh(str[j - 1])
        lead(j) == IsSurrogateHigh(str[j]) /\ j < Len(str) /\ IsSurrogateLow(str[j + 1])
        marked == [j \in 1..Len(str) |->
                     IF tail(j) THEN -1
                     ELSE IF lead(j)
                          THEN 65536 + (str[j] - 55296) * 1024 + (str[j + 1] - 56320)
                          ELSE str[j]]
    IN SelectSeq(marked, Keep)

\* String.fromCodePoint(...codePoints): the code units of the code points; the
\* platform raises a RangeError for a number that is no code point.
ValidCodePoints(cps) == \A j \in 1..Len(cps) : cps[j] >= 0 /\ cps[j] <= MaxCodePoint

fromCodePoint(cps) ==
    LET units == [r \in 1..(2 * Len(cps)) |->
                    LET cp == cps[(r + 1) \div 2]
                    IN IF r % 2 = 1
                       THEN IF cp > 65535 THEN 55296 + ((cp - 65536) \div 1024) ELSE cp
                       ELSE IF cp > 65535 THEN 56320 + ((cp - 65536) % 1024) ELSE -1]
    IN SelectSeq(units, Keep)

\* String.prototype.indexOf in its place: the first occurrence.
firstIndexOf(str, ch) ==
    LET hits == {j \in 1..Len(str) : str[j] = ch}
    IN IF hits = {} THEN -1 ELSE SetMin(hits) - 1

\* String.prototype.lastIndexOf for a single character (0-based, -1 if absent).
lastIndexOf(str, ch) ==
    LET hits == {j \in 1..Len(str) : str[j] = ch}
    IN IF hits = {} THEN -1 ELSE SetMax(hits) - 1

\* Array.prototype.splice(pos, 0, x) with 0 <= pos <= length.
splice(arr, pos, x) == SubSeq(arr, 1, pos) \o <<x>> \o SubSeq(arr, pos + 1, Len(arr))

(***************************************************************************)
(* Private utility functions (punynode.ts lines 52-91)                     *)
(***************************************************************************)
\* basicToDigit without the offset 26 of the digits '0'-'9'.
basicToDigitNoOffset(codePoint) ==
    IF codePoint >= 48 /\ codePoint < 58 THEN codePoint - 48
    ELSE IF codePoint >= 65 /\ codePoint < 91 THEN codePoint - 65
    ELSE IF codePoint >= 97 /\ codePoint < 123 THEN codePoint - 97
    ELSE base

basicToDigit(codePoint) ==
    IF codePoint >= 48 /\ codePoint < 58 THEN 26 + (codePoint - 48)
    ELSE IF codePoint >= 65 /\ codePoint < 91 THEN codePoint - 65
    ELSE IF codePoint >= 97 /\ codePoint < 123 THEN codePoint - 97
    ELSE base

\* digitToBasic with the uppercase flag always set.
digitToBasicUpper(digit, flag) ==
    digit + 22 + 75 * (IF digit < 26 THEN 1 ELSE 0) - 32

digitToBasic(digit, flag) ==
    digit + 22 + 75 * (IF digit < 26 THEN 1 ELSE 0) - (IF flag THEN 32 ELSE 0)

RECURSIVE adaptLoop(_, _)
adaptLoop(delta, k) ==
    IF delta > ((base - tMin) * tMax) \div 2
    THEN adaptLoop(delta \div (base - tMin), k + base)
    ELSE k + ((base - tMin + 1) * delta) \div (delta + skew)

adapt(delta, numPoints, firstTime) ==
    LET d1 == IF firstTime THEN delta \div damp ELSE delta \div 2
        d2 == d1 + (d1 \div numPoints)
    IN adaptLoop(d2, 0)

\* const t = k <= bias ? tMin : k >= bias + tMax ? tMax : k - bias
threshold(k, bias) ==
    IF k <= bias THEN tMin ELSE IF k >= bias + tMax THEN tMax ELSE k - bias

(***************************************************************************)
(* decode (punynode.ts lines 100-163), one operator per stretch of code.   *)
(* pc names the stretch that runs next:                                    *)
(*   "basic"  the loop over the basic prefix (112-120)                     *)
(*   "outer"  the test of the main loop (121-123)                          *)
(*   "digit"  one pass of the digit loop (124-148)                         *)
(*   "insert" the insertion of the decoded code point (150-159)            *)
(*   "return" String.fromCodePoint (162)                                   *)
(*   "done"   returned, "error" thrown, "idle" not called.                 *)
(* A JavaScript number above maxInt has no counterpart among the model's   *)
(* integers: the field wide records that an accumulator holds one, and the *)
(* accumulator is then kept at maxInt.                                     *)
(***************************************************************************)
NoDecode ==
    [pc |-> "idle", input |-> <<>>, output |-> <<>>, n |-> 0, i |-> 0, bias |-> 0,
     basic |-> 0, index |-> 0, oldi |-> 0, w |-> 0, k |-> 0, err |-> "none",
     result |-> <<>>, wide |-> FALSE]

\* error(type): throw new RangeError(errors[type]).
error(st, type) == [st EXCEPT !.pc = "error", !.err = type]

\* a + d * w, a * b and a + b are above maxInt (stated without computing them).
ExceedsMulAdd(a, d, w) == d > 0 /\ w > (maxInt - a) \div d

ExceedsMul(a, b) == a > 0 /\ b > maxInt \div a

ExceedsAdd(a, b) == a > maxInt - b

\* The guard of line 132 without the value i already holds.
iOverflowsIgnoringI(digit, i, w) == digit > maxInt \div w

\* The three guards of decode, as the source writes them.

iOverflows(digit, i, w) == digit > (maxInt - i) \div w

wOverflows(w, baseMinusT) == w > maxInt \div baseMinusT

nOverflows(i, out, n) == (i \div out) > maxInt - n

decodeStart(str) ==
    LET found == lastIndexOf(str, delimiter)
    IN [NoDecode EXCEPT !.pc = "basic", !.input = str, !.n = initialN, !.i = 0,
                        !.bias = initialBias,
                        !.basic = IF found < 0 THEN 0 ELSE found]

decodeBasic(d) ==
    IF \E j \in 1..d.basic : d.input[j] >= 128
    THEN LET first == SetMin({j \in 1..d.basic : d.input[j] >= 128})
         IN error([d EXCEPT !.output = SubSeq(d.input, 1, first - 1)], "not-basic")
    ELSE [d EXCEPT !.pc = "outer",
                   !.output = SubSeq(d.input, 1, d.basic),
                   !.index = IF d.basic > 0 THEN d.basic + 1 ELSE 0]

decodeOuter(d) ==
    IF d.index < Len(d.input)
    THEN [d EXCEPT !.pc = "digit", !.oldi = d.i, !.w = 1, !.k = base]
    ELSE [d EXCEPT !.pc = "return"]

decodeDigit(d) ==
    IF d.index >= Len(d.input) THEN error(d, "invalid-input")
    ELSE
      LET digit == basicToDigit(d.input[d.index + 1])
          read == [d EXCEPT !.index = d.index + 1]
      IN IF digit >= base THEN error(read, "invalid-input")
         ELSE IF iOverflows(digit, d.i, d.w) THEN error(read, "overflow")
         ELSE
           LET wideI == ExceedsMulAdd(d.i, digit, d.w)
               added == [read EXCEPT !.i = IF wideI THEN maxInt ELSE d.i + digit * d.w,
                                     !.wide = d.wide \/ wideI]
               t == threshold(d.k, d.bias)
               baseMinusT == base - t
           IN IF digit < t THEN [added EXCEPT !.pc = "insert"]
              ELSE IF wOverflows(d.w, baseMinusT) THEN error(added, "overflow")
              ELSE LET wideW == ExceedsMul(d.w, baseMinusT)
                   IN [added EXCEPT !.w = IF wideW THEN maxInt ELSE d.w * baseMinusT,
                                    !.wide = added.wide \/ wideW,
                                    !.k = d.k + base]

decodeInsert(d) ==
    LET out == Len(d.output) + 1
        adapted == [d EXCEPT !.bias = adapt(d.i - d.oldi, out, d.oldi = 0)]
    IN IF nOverflows(d.i, out, d.n) THEN error(adapted, "overflow")
       ELSE LET wideN == ExceedsAdd(d.n, d.i \div out)
                n == IF wideN THEN maxInt ELSE d.n + (d.i \div out)
                i == d.i % out
            IN [adapted EXCEPT !.pc = "outer", !.n = n, !.i = i + 1,
                               !.wide = d.wide \/ wideN,
                               !.output = splice(d.output, i, n)]

decodeReturn(d) ==
    IF ValidCodePoints(d.output)
    THEN [d EXCEPT !.pc = "done", !.result = fromCodePoint(d.output)]
    ELSE error(d, "invalid-code-point")

decodeStep(d) ==
    CASE d.pc = "basic" -> decodeBasic(d)
      [] d.pc = "outer" -> decodeOuter(d)
      [] d.pc = "digit" -> decodeDigit(d)
      [] d.pc = "insert" -> decodeInsert(d)
      [] d.pc = "return" -> decodeReturn(d)
      [] OTHER -> d

RECURSIVE decodeRun(_)
decodeRun(d) == IF d.pc \in {"done", "error", "idle"} THEN d ELSE decodeRun(decodeStep(d))

\* decode(input) as a whole: the record the call ends in.
decode(str) == decodeRun(decodeStart(str))

(***************************************************************************)
(* encode (punynode.ts lines 170-232).  pc names the stretch that runs     *)
(* next:                                                                   *)
(*   "basic"   the copy of the basic code points and the delimiter         *)
(*             (178-189)                                                   *)
(*   "main"    the test of the main loop, m and the step to n = m          *)
(*             (191-200)                                                   *)
(*   "for"     one pass of the loop over the code points (202-226)         *)
(*   "passend" ++delta, ++n (227-228)                                      *)
(*   "return"  output.join('') (231)                                       *)
(***************************************************************************)
NoEncode ==
    [pc |-> "idle", codePoints |-> <<>>, output |-> <<>>, n |-> 0, delta |-> 0,
     bias |-> 0, basicLength |-> 0, handledCPCount |-> 0, m |-> 0,
     handledCPCountPlusOne |-> 0, j |-> 0,
     err |-> "none", result |-> <<>>, wide |-> FALSE]

IsBasic(codePoint) == codePoint < 128

\* The digits of one variable-length integer (lines 209-221).
RECURSIVE emitDigits(_, _, _)
emitDigits(q, k, bias) ==
    LET t == threshold(k, bias)
        qMinusT == q - t
        baseMinusT == base - t
    IN IF q < t THEN <<digitToBasic(q, FALSE)>>
       ELSE <<digitToBasic(t + (qMinusT % baseMinusT), FALSE)>>
            \o emitDigits(qMinusT \div baseMinusT, k + base, bias)

encodeStart(str) ==
    [NoEncode EXCEPT !.pc = "basic", !.codePoints = ucs2decode(str), !.n = initialN,
                     !.delta = 0, !.bias = initialBias]

encodeBasic(e) ==
    LET basics == SelectSeq(e.codePoints, IsBasic)
    IN [e EXCEPT !.pc = "main",
                 !.basicLength = Len(basics),
                 !.handledCPCount = Len(basics),
                 !.output = IF Len(basics) > 0 THEN Append(basics, delimiter) ELSE basics]

\* The largest such code point in its place, and 0 when there is none.
maxAtLeast(codePoints, n) ==
    SetMax({cp \in Range(codePoints) : cp >= n} \cup {0})

\* codePoints.filter(cp => cp >= n).reduce((min, cp) => Math.min(min, cp), maxInt)
minAtLeast(codePoints, n) ==
    SetMin({cp \in Range(codePoints) : cp >= n} \cup {maxInt})

encodeMain(e) ==
    IF e.handledCPCount < Len(e.codePoints)
    THEN LET m == minAtLeast(e.codePoints, e.n)
             handledCPCountPlusOne == e.handledCPCount + 1
         IN \* with delta above maxInt the right-hand side of line 195 is negative
            IF e.wide \/ m - e.n > (maxInt - e.delta) \div handledCPCountPlusOne
            THEN error([e EXCEPT !.m = m,
                                 !.handledCPCountPlusOne = handledCPCountPlusOne],
                       "overflow")
            ELSE [e EXCEPT !.pc = "for", !.m = m, !.n = m, !.j = 0,
                           !.handledCPCountPlusOne = handledCPCountPlusOne,
                           !.delta = e.delta + (m - e.n) * handledCPCountPlusOne]
    ELSE [e EXCEPT !.pc = "return"]

encodeFor(e) ==
    LET currentValue == e.codePoints[e.j + 1]
        next == [e EXCEPT !.j = e.j + 1,
                          !.pc = IF e.j + 1 < Len(e.codePoints) THEN "for" ELSE "passend"]
    IN IF currentValue < e.n
       THEN IF e.delta >= maxInt THEN error(e, "overflow")
            ELSE [next EXCEPT !.delta = e.delta + 1]
       ELSE IF currentValue = e.n
       THEN [next EXCEPT
               !.output = e.output \o emitDigits(e.delta, base, e.bias),
               !.bias = adapt(e.delta, e.handledCPCountPlusOne,
                              e.handledCPCount = e.basicLength),
               !.delta = 0,
               !.handledCPCount = e.handledCPCount + 1]
       ELSE next

encodePassEnd(e) ==
    [e EXCEPT !.pc = "main", !.n = e.n + 1,
              !.delta = IF e.delta >= maxInt THEN maxInt ELSE e.delta + 1,
              !.wide = e.wide \/ e.delta >= maxInt]

encodeReturn(e) == [e EXCEPT !.pc = "done", !.result = e.output]

encodeStep(e) ==
    CASE e.pc = "basic" -> encodeBasic(e)
      [] e.pc = "main" -> encodeMain(e)
      [] e.pc = "for" -> encodeFor(e)
      [] e.pc = "passend" -> encodePassEnd(e)
      [] e.pc = "return" -> encodeReturn(e)
      [] OTHER -> e

RECURSIVE encodeRun(_)
encodeRun(e) == IF e.pc \in {"done", "error", "idle"} THEN e ELSE encodeRun(encodeStep(e))

\* encode(input) as a whole: the record the call ends in.
encode(str) == encodeRun(encodeStart(str))

(***************************************************************************)
(* The codec specification: one call of encode followed by decode of its   *)
(* result (decode(encode(s)), punynode.test.ts lines 68-69 and 87-88), or  *)
(* one call of decode, on an input drawn from the sets below.              *)
(***************************************************************************)
NoDomain == [pc |-> "idle"]

\* '-', 'a', U+00E9, and the two halves of U+1F600.
EncAlphabet == {45, 97, 233, 55357, 56832}

\* 1926 times 'a', then one more code unit and a code point above 0xFFFF:
\* with U+0080 and U+10FF70 encode succeeds (its second delta is
\* maxInt - 1413); with 'a' and U+10FFFF encode overflows in its first pass.
LongInput(mid, last) ==
    [j \in 1..1929 |-> IF j <= 1926 THEN 97
                       ELSE IF j = 1927 THEN mid
                       ELSE IF j = 1928 THEN 56319
                       ELSE last]

EncFixtures ==
    { <<109, 97, 241, 97, 110, 97>>,                  \* "mañana"
      <<101, 109, 111, 106, 105, 45, 55357, 56832>>,   \* "emoji-😀"
      <<97, 12290, 98>>,                               \* "a。b"
      LongInput(128, 57200),                           \* ... U+0080 U+10FF70
      LongInput(97, 57343) }                           \* ... 'a' U+10FFFF

EncInputs == SeqsUpTo(EncAlphabet, MaxEncLen) \cup EncFixtures

\* '-', '9' (digit 35), 'a' (digit 0), U+00E9.
DecAlphabet == {45, 57, 97, 233}

DecFixtures ==
    { <<109, 97, 97, 110, 97, 45, 112, 116, 97>>,                 \* "maana-pta"
      <<101, 109, 111, 106, 105, 45, 45, 56, 118, 55, 52, 101>>,  \* "emoji--8v74e"
      <<45, 97, 45, 45>>,                                         \* "-a--"
      <<97, 45, 45, 98, 45>>,                                     \* "a--b-"
      <<45, 66>>,                                                 \* "-B"
      <<100, 110, 51, 50, 103>>,                  \* "dn32g": i = 0x10FF7F
      <<57, 57, 57, 57, 57, 57, 57, 57>>,         \* "99999999"
      <<56, 48, 49, 54, 49, 52, 54, 111>>,        \* "8016146o": i = maxInt - 128
      <<119, 52, 49, 54, 49, 52, 54, 111>>,       \* "w416146o": i = maxInt
      <<120, 52, 49, 54, 49, 52, 54, 111>> }      \* "x416146o": maxInt + 1

DecInputs == SeqsUpTo(DecAlphabet, MaxDecLen) \cup DecFixtures

Init ==
    /\ call \in {"encode", "decode"}
    /\ input \in IF call = "encode" THEN EncInputs ELSE DecInputs
    /\ enc = IF call = "encode" THEN encodeStart(input) ELSE NoEncode
    /\ dec = IF call = "decode" THEN decodeStart(input) ELSE NoDecode
    /\ dom = NoDomain

EncodeBasic ==
    /\ enc.pc = "basic"
    /\ enc' = encodeBasic(enc)
    /\ UNCHANGED <<call, input, dec, dom>>

EncodeMain ==
    /\ enc.pc = "main"
    /\ enc' = encodeMain(enc)
    /\ UNCHANGED <<call, input, dec, dom>>

EncodeFor ==
    /\ enc.pc = "for"
    /\ enc' = encodeFor(enc)
    /\ UNCHANGED <<call, input, dec, dom>>

EncodePassEnd ==
    /\ enc.pc = "passend"
    /\ enc' = encodePassEnd(enc)
    /\ UNCHANGED <<call, input, dec, dom>>

EncodeReturn ==
    /\ enc.pc = "return"
    /\ enc' = encodeReturn(enc)
    /\ UNCHANGED <<call, input, dec, dom>>

\* decode(encode(s)): the result of encode is handed to decode.
DecodeEncoded ==
    /\ call = "encode"
    /\ enc.pc = "done"
    /\ dec.pc = "idle"
    /\ dec' = decodeStart(enc.result)
    /\ UNCHANGED <<call, input, enc, dom>>

DecodeBasic ==
    /\ dec.pc = "basic"
    /\ dec' = decodeBasic(dec)
    /\ UNCHANGED <<call, input, enc, dom>>

DecodeOuter ==
    /\ dec.pc = "outer"
    /\ dec' = decodeOuter(dec)
    /\ UNCHANGED <<call, input, enc, dom>>

DecodeDigit ==
    /\ dec.pc = "digit"
    /\ dec' = decodeDigit(dec)
    /\ UNCHANGED <<call, input, enc, dom>>

DecodeInsert ==
    /\ dec.pc = "insert"
    /\ dec' = decodeInsert(dec)
    /\ UNCHANGED <<call, input, enc, dom>>

DecodeReturn ==
    /\ dec.pc = "return"
    /\ dec' = decodeReturn(dec)
    /\ UNCHANGED <<call, input, enc, dom>>

Next ==
    \/ EncodeBasic
    \/ EncodeMain
    \/ EncodeFor
    \/ EncodePassEnd
    \/ EncodeReturn
    \/ DecodeEncoded
    \/ DecodeBasic
    \/ DecodeOuter
    \/ DecodeDigit
    \/ DecodeInsert
    \/ DecodeReturn

Spec == Init /\ [][Next]_vars

(***************************************************************************)
(* mapDomain, toUnicode and toASCII (punynode.ts lines 240-273)            *)
(***************************************************************************)
\* const regexPunycode = /^xn-/ in its place: one hyphen short.
regexPunycodeShort(str) ==
    Len(str) >= 3 /\ SubSeq(str, 1, 3) = <<120, 110, 45>>

\* regexPunycode.test(str), /^xn--/
regexPunycode(str) ==
    Len(str) >= 4 /\ SubSeq(str, 1, 4) = <<120, 110, 45, 45>>

\* A test for any character at all in its place.
regexAnyChar(str) == \E j \in 1..Len(str) : str[j] >= 0

\* regexNonASCII.test(str), /[^\0-\x7F]/
regexNonASCII(str) == \E j \in 1..Len(str) : str[j] > 127

\* regexSeparators, /[\x2E。．｡]/g
regexSeparators == {46, 12290, 65294, 65377}

\* String.prototype.toLowerCase, for ASCII and Latin-1 letters (every other
\* code unit of the model's inputs has no lowercase form of its own).
toLowerCase(str) ==
    [j \in 1..Len(str) |->
       IF str[j] >= 65 /\ str[j] <= 90 THEN str[j] + 32
       ELSE IF str[j] >= 192 /\ str[j] <= 222 /\ str[j] # 215 THEN str[j] + 32
       ELSE str[j]]

\* String.prototype.slice(from), 0-based.
slice(str, from) == SubSeq(str, from + 1, Len(str))

\* String.prototype.split(ch): the pieces between the occurrences of ch.
RECURSIVE split(_, _)
split(str, ch) ==
    IF \E j \in 1..Len(str) : str[j] = ch
    THEN LET first == SetMin({j \in 1..Len(str) : str[j] = ch})
         IN <<SubSeq(str, 1, first - 1)>> \o split(SubSeq(str, first + 1, Len(str)), ch)
    ELSE <<str>>

\* Array.prototype.join(ch)
RECURSIVE join(_, _)
join(pieces, ch) ==
    IF Len(pieces) = 0 THEN <<>>
    ELSE IF Len(pieces) = 1 THEN pieces[1]
    ELSE pieces[1] \o <<ch>> \o join(Tail(pieces), ch)

\* domain.replace(regexSeparators, '\x2E')
replaceSeparators(str) ==
    [j \in 1..Len(str) |-> IF str[j] \in regexSeparators THEN DOT ELSE str[j]]

\* The callbacks of toUnicode and toASCII: what a label becomes, or the error
\* decode / encode throws.
toUnicodeLabel(str) ==
    IF regexPunycode(str)
    THEN LET d == decode(toLowerCase(slice(str, 4)))
         IN [ok |-> d.pc = "done", value |-> d.result, err |-> d.err]
    ELSE [ok |-> TRUE, value |-> str, err |-> "none"]

toASCIILabel(str) ==
    IF regexNonASCII(str)
    THEN LET e == encode(str)
         IN [ok |-> e.pc = "done", value |-> <<120, 110, 45, 45>> \o e.result,
             err |-> e.err]
    ELSE [ok |-> TRUE, value |-> str, err |-> "none"]

(***************************************************************************)
(* One call of toASCII or toUnicode, and then the same function on its     *)
(* result.  pc: "split" (241-249), "map" (one callback of labels.map, 250),*)
(* "join" (250-252), "done", "error".  pass counts the calls; first keeps  *)
(* the labels, the mapped labels and the result of the first call.         *)
(***************************************************************************)
NoFirst == [labels |-> <<>>, mapped |-> <<>>, out |-> <<>>]

mapDomainStart(fn, str) ==
    [pc |-> "split", fn |-> fn, domain |-> str, parts |-> <<>>, result |-> <<>>,
     labels |-> <<>>, encoded |-> <<>>, l |-> 0, out |-> <<>>, err |-> "none",
     pass |-> 1, first |-> NoFirst]

mapDomainSplit(m) ==
    LET parts == split(m.domain, AT)
        domain == IF Len(parts) > 1 THEN parts[2] ELSE m.domain
    IN [m EXCEPT !.pc = "map",
                 !.parts = parts,
                 !.result = IF Len(parts) > 1 THEN Append(parts[1], AT) ELSE <<>>,
                 !.domain = domain,
                 !.labels = split(replaceSeparators(domain), DOT),
                 !.encoded = <<>>,
                 !.l = 0]

mapDomainLabel(m) ==
    LET label == m.labels[m.l + 1]
        r == IF m.fn = "toUnicode" THEN toUnicodeLabel(label) ELSE toASCIILabel(label)
    IN IF r.ok
       THEN [m EXCEPT !.encoded = Append(m.encoded, r.value),
                      !.l = m.l + 1,
                      !.pc = IF m.l + 1 < Len(m.labels) THEN "map" ELSE "join"]
       ELSE [m EXCEPT !.pc = "error", !.err = r.err]

mapDomainJoin(m) ==
    [m EXCEPT !.pc = "done", !.out = m.result \o join(m.encoded, DOT)]

(***************************************************************************)
(* The domain specification: toASCII or toUnicode on an input built from   *)
(* an optional local part, up to MaxLabels labels joined by one of the     *)
(* four separators, and an optional second '@' with more text.             *)
(***************************************************************************)
Labels ==
    { <<>>,                                          \* ""
      <<97>>,                                        \* "a"
      <<233>>,                                       \* "é"
      <<97, 45, 233>>,                               \* "a-é"
      <<55357, 56832>>,                              \* "😀"
      <<120, 110, 45, 45, 57, 99, 97>>,              \* "xn--9ca" (é)
      <<88, 78, 45, 45, 57, 99, 97>>,                \* "XN--9ca"
      <<120, 110, 45, 45, 57, 67, 65>>,              \* "xn--9CA"
      <<120, 110, 45, 45, 120, 110, 45, 45, 45>>,    \* "xn--xn---" ("xn--")
      <<120, 110, 45, 45, 120, 110, 45, 97, 45>>,    \* "xn--xn-a-" ("xn-a")
      <<120, 110, 45, 45, 114, 54, 106>>,            \* "xn--r6j" (U+3002)
      <<120, 110, 45, 45, 233>> }                    \* "xn--é" (no Punycode)

\* "", "é。u@"
Locals == { <<>>, <<233, 12290, 117, 64>> }

\* "", "@b"
Tails == { <<>>, <<64, 98>> }

Domains ==
    UNION { { join(ls, sep) : ls \in [1..k -> Labels], sep \in regexSeparators } :
            k \in 1..MaxLabels }

DomainInputs == { loc \o d \o tl : loc \in Locals, d \in Domains, tl \in Tails }

DomainInit ==
    /\ call \in {"toASCII", "toUnicode"}
    /\ input \in DomainInputs
    /\ dom = mapDomainStart(call, input)
    /\ enc = NoEncode
    /\ dec = NoDecode

MapDomainSplit ==
    /\ dom.pc = "split"
    /\ dom' = mapDomainSplit(dom)
    /\ UNCHANGED <<call, input, enc, dec>>

MapDomainLabel ==
    /\ dom.pc = "map"
    /\ dom' = mapDomainLabel(dom)
    /\ UNCHANGED <<call, input, enc, dec>>

MapDomainJoin ==
    /\ dom.pc = "join"
    /\ dom' = mapDomainJoin(dom)
    /\ UNCHANGED <<call, input, enc, dec>>

\* toASCII(toASCII(x)), toUnicode(toUnicode(x)): the function on its own result.
Reapply ==
    /\ dom.pc = "done"
    /\ dom.pass = 1
    /\ dom' = [mapDomainStart(dom.fn, dom.out) EXCEPT
                 !.pass = 2,
                 !.first = [labels |-> dom.labels, mapped |-> dom.encoded,
                            out |-> dom.out]]
    /\ UNCHANGED <<call, input, enc, dec>>

DomainNext ==
    \/ MapDomainSplit
    \/ MapDomainLabel
    \/ MapDomainJoin
    \/ Reapply

DomainSpec == DomainInit /\ [][DomainNext]_vars

(***************************************************************************)
(* Properties of the codec, stated for Spec                                *)
(***************************************************************************)
\* The 0-based place of the last delimiter of str, -1 if it has none.
LastDelimiter(str) ==
    IF \E j \in 1..Len(str) : str[j] = 45
    THEN (CHOOSE j \in 1..Len(str) :
            str[j] = 45 /\ \A h \in (j + 1)..Len(str) : str[h] # 45) - 1
    ELSE -1

\* C1, as the spec states it: for every string s of valid Unicode scalar
\* values, encode(s) succeeds and decode(encode(s)) equals s.
RoundTripLaw ==
    (call = "encode" /\ (enc.pc = "error" \/ dec.pc \in {"error", "done"})
       /\ WellFormed(input)) =>
        /\ enc.pc # "error"
        /\ dec.pc # "error"
        /\ dec.pc = "done" => dec.result = input

\* C1, amended: for every string s of valid Unicode scalar values, the only
\* failure of encode(s) and of decode(encode(s)) is Overflow, neither fails
\* for a string of at most 8 code points, and whenever both return,
\* decode(encode(s)) equals s.
RoundTripUnlessOverflow ==
    (call = "encode" /\ (enc.pc = "error" \/ dec.pc \in {"error", "done"})
       /\ WellFormed(input)) =>
        /\ enc.pc = "error" => enc.err = "overflow"
        /\ dec.pc = "error" => dec.err = "overflow"
        /\ Len(enc.codePoints) <= 8 => (enc.pc # "error" /\ dec.pc # "error")
        /\ dec.pc = "done" => dec.result = input

\* decode(encode("emoji-😀")) has returned "emoji-😀": a string with a '-',
\* basic code points and a code point above 0xFFFF.
RoundTripWitness ==
    /\ call = "encode"
    /\ input = <<101, 109, 111, 106, 105, 45, 55357, 56832>>
    /\ enc.result = <<101, 109, 111, 106, 105, 45, 45, 56, 118, 55, 52, 101>>
    /\ dec.pc = "done"
    /\ dec.result = input

\* C2: decode returns a string or fails with one of the three error kinds
\* NotBasic, InvalidInput, Overflow, and in no other way.
DecodeFailsWithThreeKinds ==
    dec.pc = "error" => dec.err \in {"not-basic", "invalid-input", "overflow"}

\* C7: every element of encode's output buffer, at every point of the call,
\* is ASCII: a basic code point copied from the input, in order, then the
\* delimiter, then digit characters 'a'-'z' / '0'-'9' (digits 0..35); the
\* returned string is that buffer.
EncodeOutputAscii ==
    LET basics == SelectSeq(enc.codePoints, IsBasic)
        out == enc.output
        b == enc.basicLength
    IN (call = "encode" /\ enc.pc # "basic") =>
        /\ b = Len(basics)
        /\ Len(out) >= b
        /\ SubSeq(out, 1, b) = basics
        /\ b > 0 => (Len(out) > b /\ out[b + 1] = 45)
        /\ \A j \in (IF b > 0 THEN b + 2 ELSE 1)..Len(out) :
              /\ basicToDigit(out[j]) \in 0..35
              /\ \/ out[j] >= 97 /\ out[j] <= 122
                 \/ out[j] >= 48 /\ out[j] <= 57
        /\ enc.pc = "done" =>
              /\ enc.codePoints = ucs2decode(input)
              /\ enc.result = out
              /\ \A j \in 1..Len(enc.result) : enc.result[j] \in 0..127

\* encode("emoji-😀") has returned "emoji--8v74e": copied basic code points,
\* the delimiter, and digits of both kinds.
EncodeOutputAsciiWitness ==
    /\ call = "encode"
    /\ input = <<101, 109, 111, 106, 105, 45, 55357, 56832>>
    /\ enc.pc = "done"
    /\ enc.result = <<101, 109, 111, 106, 105, 45, 45, 56, 118, 55, 52, 101>>

\* decode has read dec.input[dec.index] as a digit (line 128) and no later one.
DecodeJustRead ==
    /\ dec.w >= 1
    /\ dec.index >= 1
    /\ \/ dec.pc = "insert"
       \/ dec.pc = "digit" /\ dec.k > base
       \/ dec.pc = "error"

\* C9, as the claim states it: decode splits its input at the last '-' (the
\* basic prefix before it, the digit suffix after it), also when that
\* delimiter is the first character; with no delimiter the whole string is
\* the digit suffix; the delimiter is never read as a digit.
DecodeSplitsAtLastDelimiter ==
    LET last == LastDelimiter(dec.input)
    IN /\ (dec.pc = "outer" /\ dec.i = 0) =>
             IF last >= 0
             THEN dec.output = SubSeq(dec.input, 1, last) /\ dec.index = last + 1
             ELSE dec.output = <<>> /\ dec.index = 0
       /\ DecodeJustRead => dec.input[dec.index] # 45

\* C9, amended: decode splits its input at the last '-' when that delimiter
\* is not the first character (the basic prefix before it, the digit suffix
\* after it); when the only delimiter is the first character, or there is
\* none, the whole string is the digit suffix, so a delimiter is read as a
\* digit exactly when it is the first character and the only delimiter, and
\* the call then fails with InvalidInput.
DecodeSplitsAtLastInnerDelimiter ==
    LET last == LastDelimiter(dec.input)
    IN /\ (dec.pc = "outer" /\ dec.i = 0) =>
             IF last > 0
             THEN dec.output = SubSeq(dec.input, 1, last) /\ dec.index = last + 1
             ELSE dec.output = <<>> /\ dec.index = 0
       /\ (DecodeJustRead /\ dec.input[dec.index] = 45) =>
             /\ last = 0
             /\ dec.index = 1
             /\ dec.pc = "error"
             /\ dec.err = "invalid-input"

\* decode("-a"): the only delimiter is the first character, it was read as a
\* digit and the call failed with InvalidInput.
DecodeLeadingDelimiterWitness ==
    /\ dec.input = <<45, 97>>
    /\ dec.pc = "error"
    /\ dec.err = "invalid-input"
    /\ dec.index = 1
    /\ dec.output = <<>>

\* The next step of decode would take i, w or n above maxInt.
DecodeWouldExceed ==
    LET digit == basicToDigit(dec.input[dec.index + 1])
        t == threshold(dec.k, dec.bias)
    IN \/ /\ dec.pc = "digit"
          /\ dec.index < Len(dec.input)
          /\ digit < base
          /\ \/ ExceedsMulAdd(dec.i, digit, dec.w)
             \/ digit >= t /\ ExceedsMul(dec.w, base - t)
       \/ /\ dec.pc = "insert"
          /\ ExceedsAdd(dec.n, dec.i \div (Len(dec.output) + 1))

\* C10: in every state of a decode call i, w and n are at most 2^31 - 1; a
\* step that would take one of them above it is not performed: the call
\* fails with Overflow and returns nothing.
DecodeOverflowGuard ==
    /\ [](/\ ~dec.wide
          /\ dec.i <= maxInt /\ dec.w <= maxInt /\ dec.n <= maxInt
          /\ dec.pc = "error" => dec.result = <<>>)
    /\ [][DecodeWouldExceed =>
            /\ dec'.pc = "error"
            /\ dec'.err = "overflow"
            /\ dec'.w = dec.w
            /\ dec'.n = dec.n
            /\ dec'.output = dec.output
            /\ dec'.result = <<>>]_vars

\* decode("w416146o"): i reached exactly maxInt, and the step n += i / 1 was
\* refused with Overflow.
DecodeOverflowWitness ==
    /\ dec.input = <<119, 52, 49, 54, 49, 52, 54, 111>>
    /\ dec.pc = "error"
    /\ dec.err = "overflow"
    /\ dec.i = maxInt
    /\ dec.n = initialN
    /\ dec.result = <<>>

(***************************************************************************)
(* The codec running to completion: encode and decode are synchronous      *)
(* functions with no suspension point, so a call that can take a step      *)
(* takes it.                                                               *)
(***************************************************************************)
FairSpec == Spec /\ WF_vars(Next)

\* The number of input code points that are not basic.
NonBasicCount == Len(enc.codePoints) - Len(SelectSeq(enc.codePoints, IsBasic))

\* seg is the digits of exactly one variable-length integer written under
\* bias: every digit but the last is at or above its threshold, the last is
\* below it.
IsOneInteger(seg, bias) ==
    /\ Len(seg) >= 1
    /\ \A p \in 1..Len(seg) :
         LET digit == basicToDigit(seg[p])
             t == threshold(p * base, bias)
         IN IF p < Len(seg) THEN digit >= t /\ digit < base ELSE digit < t

\* What holds in every state of the main loop of encode.
EncodeLoopState ==
    /\ enc.handledCPCount <= Len(enc.codePoints)
    /\ (enc.pc = "main" /\ enc.handledCPCount < Len(enc.codePoints))
         => \E cp \in Range(enc.codePoints) : cp >= enc.n
    /\ (enc.pc \in {"for", "passend"} \/ (enc.pc = "error" /\ enc.err = "overflow"))
         => /\ enc.m \in Range(enc.codePoints)
            /\ enc.m >= initialN
            /\ enc.m < maxInt
    /\ enc.pc \in {"for", "passend"} => enc.n = enc.m
    /\ enc.pc = "passend" => enc.handledCPCount >= enc.handledCPCountPlusOne
    /\ enc.pc \in {"return", "done"}
         => /\ enc.handledCPCount = Len(enc.codePoints)
            /\ enc.handledCPCount - enc.basicLength = NonBasicCount

\* What holds of every step of one pass: the output grows exactly when a
\* code point is handled, and then by the digits of one integer.
EncodePassStep ==
    enc.pc = "for" /\ enc'.pc # "error" =>
      LET grown == Len(enc'.output) - Len(enc.output)
      IN /\ grown >= 0
         /\ SubSeq(enc'.output, 1, Len(enc.output)) = enc.output
         /\ IF grown = 0
            THEN enc'.handledCPCount = enc.handledCPCount
            ELSE /\ enc'.handledCPCount = enc.handledCPCount + 1
                 /\ IsOneInteger(SubSeq(enc'.output, Len(enc.output) + 1,
                                        Len(enc'.output)), enc.bias)

\* C11: whenever the body of the main loop of encode starts, some input code
\* point is at or above n, so m is an input code point and never the maxInt
\* sentinel; a pass that does not fail with Overflow ends with handledCPCount
\* above its value at the start of the pass; every call of encode ends, and
\* one that returns does so with handledCPCount equal to the number of input
\* code points, having written exactly one variable-length integer for each
\* code point that is not basic.
EncodeMainLoopProgress ==
    /\ []EncodeLoopState
    /\ [][EncodePassStep]_vars
    /\ (call = "encode") ~> (enc.pc \in {"done", "error"})

\* encode returned after two passes or more over an input with a basic code
\* point and two different code points that are not basic.
EncodeMainLoopWitness ==
    /\ enc.pc = "done"
    /\ enc.basicLength >= 1
    /\ \E a, b \in Range(enc.codePoints) : a >= initialN /\ b > a
    /\ enc.handledCPCount = Len(enc.codePoints)
    /\ Len(enc.result) > enc.basicLength + NonBasicCount

(***************************************************************************)
(* Properties of the domain mapper and the facade, stated for DomainSpec   *)
(***************************************************************************)
\* str starts with "xn--", compared as written / without regard to case.
StartsWithXn(str) ==
    Len(str) >= 4 /\ str[1] = 120 /\ str[2] = 110 /\ str[3] = 45 /\ str[4] = 45

StartsWithXnAnyCase(str) ==
    Len(str) >= 4 /\ str[1] \in {120, 88} /\ str[2] \in {110, 78}
                  /\ str[3] = 45 /\ str[4] = 45

HasSeparator(str) == \E j \in 1..Len(str) : str[j] \in {46, 12290, 65294, 65377}

AllAscii(str) == \A j \in 1..Len(str) : str[j] <= 127

CountOf(str, ch) == Cardinality({j \in 1..Len(str) : str[j] = ch})

\* The text of str after its first '@'.
AfterFirstAt(str) ==
    LET first == CHOOSE j \in 1..Len(str) :
                     str[j] = 64 /\ \A h \in 1..(j - 1) : str[h] # 64
    IN SubSeq(str, first + 1, Len(str))

\* C3: toUnicode decodes a label whenever it starts with "xn--" in any mix of
\* upper and lower case: the label P + R becomes decode(lowercase(R)), as
\* "xn--" + R does.
ToUnicodePrefixAnyCase ==
    (dom.fn = "toUnicode" /\ dom.pc \in {"map", "join", "done"}) =>
        \A l \in 1..Len(dom.encoded) :
            StartsWithXnAnyCase(dom.labels[l]) =>
                /\ dom.encoded[l] = decode(toLowerCase(slice(dom.labels[l], 4))).result
                /\ dom.encoded[l] =
                     toUnicodeLabel(<<120, 110, 45, 45>> \o slice(dom.labels[l], 4)).value

\* C4: for an input with more than one '@', the mapper takes all the text
\* after the first '@' as the domain; every further '@' and the text after it
\* is kept in the result.
MapDomainKeepsTextAfterFirstAt ==
    (dom.pass = 1 /\ dom.pc \in {"map", "join", "done"} /\ CountOf(input, 64) > 1) =>
        /\ dom.domain = AfterFirstAt(input)
        /\ dom.pc = "done" =>
             CountOf(dom.out, 64) = CountOf(input, 64)

\* C5, as the spec states it: whenever toUnicode(x) returns,
\* toUnicode(toUnicode(x)) returns the same string.
ToUnicodeIdempotent ==
    (dom.fn = "toUnicode" /\ dom.pass = 2 /\ dom.pc \in {"done", "error"}) =>
        /\ dom.pc = "done"
        /\ dom.out = dom.first.out

\* C5, amended: whenever toUnicode(x) returns and no label of its result
\* begins with "xn--" or holds a separator (U+3002, U+FF0E, U+FF61),
\* toUnicode(toUnicode(x)) returns the same string.
ToUnicodeIdempotentOnPlainLabels ==
    (/\ dom.fn = "toUnicode" /\ dom.pass = 2 /\ dom.pc \in {"done", "error"}
     /\ \A l \in 1..Len(dom.first.mapped) :
            ~StartsWithXn(dom.first.mapped[l]) /\ ~HasSeparator(dom.first.mapped[l])) =>
        /\ dom.pc = "done"
        /\ dom.out = dom.first.out

\* toUnicode(toUnicode("é。u@xn--9ca。a")) has returned "é。u@é.a", as the
\* first call did.
ToUnicodeIdempotentWitness ==
    /\ dom.fn = "toUnicode"
    /\ dom.pass = 2
    /\ dom.pc = "done"
    /\ input = <<233, 12290, 117, 64, 120, 110, 45, 45, 57, 99, 97, 12290, 97>>
    /\ dom.first.out = <<233, 12290, 117, 64, 233, 46, 97>>
    /\ dom.out = dom.first.out

\* C6: whenever toASCII(x) returns, toASCII(toASCII(x)) returns the same
\* string.
ToASCIIIdempotent ==
    (dom.fn = "toASCII" /\ dom.pass = 2 /\ dom.pc \in {"done", "error"}) =>
        /\ dom.pc = "done"
        /\ dom.out = dom.first.out

\* toASCII(toASCII("é。u@a-é｡😀")) has returned "é。u@xn--a--cja.xn--e28h", as
\* the first call did.
ToASCIIIdempotentWitness ==
    /\ dom.fn = "toASCII"
    /\ dom.pass = 2
    /\ dom.pc = "done"
    /\ input = <<233, 12290, 117, 64, 97, 45, 233, 65377, 55357, 56832>>
    /\ dom.first.out = <<233, 12290, 117, 64, 120, 110, 45, 45, 97, 45, 45, 99, 106, 97,
                         46, 120, 110, 45, 45, 101, 50, 56, 104>>
    /\ dom.out = dom.first.out

\* C8: the result has as many labels as the domain part of the input; in
\* toASCII a label without a non-ASCII character, and in toUnicode a label
\* that does not start with "xn--", stands unchanged at its place.
LabelPassThrough ==
    LET resultLabels == split(SubSeq(dom.out, Len(dom.result) + 1, Len(dom.out)), 46)
        passes(label) == IF dom.fn = "toASCII" THEN AllAscii(label)
                         ELSE ~StartsWithXn(label)
    IN /\ dom.pc \in {"join", "done"} =>
            /\ Len(dom.encoded) = Len(dom.labels)
            /\ \A l \in 1..Len(dom.labels) :
                   passes(dom.labels[l]) => dom.encoded[l] = dom.labels[l]
       /\ dom.pc = "done" =>
            /\ SubSeq(dom.out, 1, Len(dom.result)) = dom.result
            /\ Len(resultLabels) = Len(dom.labels)
            /\ \A l \in 1..Len(dom.labels) :
                   passes(dom.labels[l]) => resultLabels[l] = dom.labels[l]

\* toUnicode("a．xn--9ca") has returned "a.é": the first label stands, the
\* second is decoded.
LabelPassThroughWitness ==
    /\ dom.fn = "toUnicode"
    /\ dom.pass = 1
    /\ dom.pc = "done"
    /\ input = <<97, 65294, 120, 110, 45, 45, 57, 99, 97>>
    /\ dom.labels = << <<97>>, <<120, 110, 45, 45, 57, 99, 97>> >>
    /\ dom.out = <<97, 46, 233>>

====
